---- MODULE Spec2Model ----
(***************************************************************************)
(* Model of scripts/pyre_incremental_test/runner.py: the PyreRunner        *)
(* session (run_start, update, run_incremental, run_stop, run_check,       *)
(* run_profile), the two entry points compare_server_to_full and           *)
(* benchmark_server, and the result records with their to_json.            *)
(*                                                                         *)
(* The environment (Environment.checked_run, the pyre server and its       *)
(* profiling log, the update steps, the sandbox, the clock) is external:   *)
(* every answer it gives is a nondeterministic choice from a bounded set.  *)
(***************************************************************************)
EXTENDS Integers, Sequences, FiniteSets, TLC

\* ------------------------------------------------------------------ bounds
\* Largest number of update steps new_state.update_steps() supplies.
MaxSteps == 3
\* Largest number of records the server's incremental_updates log reaches.
MaxLog == 3
\* Largest number of elements of a JSON error array on stdout.
MaxArr == 2
\* Largest number of incremental_updates polls the driver specification records.
MaxPolls == 6

\* ------------------------------------------------------------- value pools
Keys == {"line", "column", "path", "description"}

\* A JSON scalar that int() accepts: the integer n, or the decimal string of n.
JsonInt(n) == [kind |-> "int", n |-> n]
JsonStr(n) == [kind |-> "str", n |-> n]

\* One element of the error array pyre prints: the keys it holds and their
\* values (the value of an absent key is never read and is kept at a default).
JsonRecord(keys, line, column, path, description) ==
    [keys |-> keys,
     line |-> IF "line" \in keys THEN line ELSE JsonInt(0),
     column |-> IF "column" \in keys THEN column ELSE JsonInt(0),
     path |-> IF "path" \in keys THEN path ELSE "",
     description |-> IF "description" \in keys THEN description ELSE ""]

JsonA == JsonRecord(Keys, JsonStr(1), JsonInt(2), "a.py", "x")
JsonB == JsonRecord(Keys, JsonInt(3), JsonInt(4), "b.py", "y")
JsonLacking(k) == JsonRecord(Keys \ {k}, JsonInt(1), JsonInt(2), "a.py", "x")

JsonRecords == {JsonA, JsonB} \cup {JsonLacking(k) : k \in Keys}

\* Sequences over S of length at most n.
SeqUpTo(S, n) == UNION {[1..k -> S] : k \in 0..n}

\* What a process may leave on stdout: text json.loads rejects, or an array.
NotJson == [json |-> FALSE, array |-> <<>>]
JsonArray(a) == [json |-> TRUE, array |-> a]
Stdouts == {NotJson} \cup {JsonArray(a) : a \in SeqUpTo(JsonRecords, MaxArr)}

\* Profile records (Mapping[str, int]): with a "total" entry or without one.
ProfileRecord(has, total) == [has_total |-> has, total |-> IF has THEN total ELSE 0]
ProfileRecords == {ProfileRecord(TRUE, 1), ProfileRecord(TRUE, 2), ProfileRecord(FALSE, 0)}
\* The record the server writes for its k-th update: records are told apart by
\* their "total" entry.
EmittedRecord(k) == ProfileRecord(TRUE, k)
\* The cold_start_phases record, identified by its "total" entry.
ColdStartLogs == {ProfileRecord(TRUE, 5), ProfileRecord(TRUE, 6)}
\* A local that no assignment has bound yet.
Unbound == ProfileRecord(FALSE, 0)

\* Elapsed wall-clock milliseconds of the timed full check.
ElapsedMs == {0, 12}

\* Exit codes a process may end with.
ExitCodes == {0, 1, 2}

VARIABLES
    mode,                      \* "compare" (compare_server_to_full) or "benchmark" (benchmark_server)
    ip,                        \* index of the current call in the body of the with block
    nSteps,                    \* len(new_state.update_steps())
    pc,                        \* position of the run
    sandbox,                   \* "none", "active", "released": the activate_sandbox scope
    server,                    \* "down", "up", "stopped": the pyre server
    serverLog,                 \* the server's incremental_updates profiling log
    expected,                  \* update(): the loop index `expected`
    driver_logs,               \* update(): its local incremental_update_logs
    cold_start_log,            \* caller's local cold_start_log
    incremental_update_logs,   \* caller's local incremental_update_logs
    output,                    \* run_check / run_incremental: the local `output`, <<>> when no call is pending
    incremental_check_output,  \* caller's local incremental_check_output
    full_check_output,         \* caller's local full_check_output
    full_check_time,           \* caller's local full_check_time
    result,                    \* <<>> or <<the value returned to the caller>>
    jsonOut,                   \* <<>> or <<the mapping to_json returned>>
    flag,                      \* the dont_show_discrepancy argument of the to_json call
    error,                     \* "none" or the exception that ended the run or the to_json call
    events,                    \* history: commands issued, steps applied, sandbox scope entered/left
    polls,                     \* history of the incremental_updates polls (driver specification only)
    produced                   \* history: for each record of the server's log, the number of steps
                               \* applied when the server emitted it (driver specification only)

vars == <<mode, ip, nSteps, pc, sandbox, server, serverLog, expected, driver_logs,
          cold_start_log, incremental_update_logs, output, incremental_check_output,
          full_check_output, full_check_time, result, jsonOut, flag, error, events, polls, produced>>

\* A history entry: a gateway command with the return code of its process, an
\* update step with its index, or the sandbox scope being entered or left.
Event(cmd, arg, rc) == [cmd |-> cmd, arg |-> arg, rc |-> rc]

\* ------------------------------------------------------------ pure functions
\* int(x) on a JSON scalar.
PyInt(v) == v.n

\* PyreError.from_json: the four lookups; a missing key is a KeyError, turned
\* into MalformedPyreOutputException.
FromJsonRaises(x) == x.keys # Keys

from_json(x) ==
    [line |-> PyInt(x.line), column |-> PyInt(x.column),
     path |-> x.path, description |-> x.description]

\* Mutant: only the first element of the array is looked at.
ParseErrorFirstOnly(stdout) ==
    IF ~stdout.json THEN "JSONDecodeError"
    ELSE IF Len(stdout.array) > 0 /\ FromJsonRaises(stdout.array[1])
         THEN "MalformedPyreOutputException"
         ELSE "none"

\* [PyreError.from_json(x) for x in json.loads(stdout)]: the exception, if any.
ParseError(stdout) ==
    IF ~stdout.json THEN "JSONDecodeError"
    ELSE IF \E i \in 1..Len(stdout.array) : FromJsonRaises(stdout.array[i])
         THEN "MalformedPyreOutputException"
         ELSE "none"

\* Mutant: the records come out in reverse array order.
ParseErrorsReversed(stdout) ==
    [i \in 1..Len(stdout.array) |-> from_json(stdout.array[Len(stdout.array) + 1 - i])]

ParseErrors(stdout) == [i \in 1..Len(stdout.array) |-> from_json(stdout.array[i])]

\* ------------------------------------------------------- the two entry points
\* The statements of each entry point, in order: the with block over
\* _create_pyre_runner, the calls on pyre_runner, the end of the with block,
\* and the construction of the returned value.
\* Mutant: the server is stopped only after the full check.
CompareProgramStopLast ==
    <<"with", "run_start", "update", "run_incremental", "run_check", "run_stop",
      "end_with", "return">>

\* Mutant: the full check moved out of the with block.
CompareProgramCheckOutside ==
    <<"with", "run_start", "update", "run_incremental", "run_stop",
      "end_with", "run_check", "return">>

CompareProgram ==
    <<"with", "run_start", "update", "run_incremental", "run_stop", "run_check",
      "end_with", "return">>

\* Mutant: the benchmark never stops the server.
BenchmarkProgramNoStop ==
    <<"with", "run_start", "update", "run_incremental", "end_with", "return">>

\* Mutant: the benchmark runs the incremental check before the update driver.
BenchmarkProgramCheckFirst ==
    <<"with", "run_start", "run_incremental", "update", "run_stop",
      "end_with", "return">>

BenchmarkProgram ==
    <<"with", "run_start", "update", "run_incremental", "run_stop",
      "end_with", "return">>

Program == IF mode = "compare" THEN CompareProgram ELSE BenchmarkProgram

\* The current statement has completed: control moves to the next one.
Returns == /\ pc' = Program[ip + 1]
           /\ ip' = ip + 1

\* Environment.checked_run: the process ends with `rc`; the run is fatal unless
\* rc is among the expected return codes.
CheckedRunFails(rc, expected_return_codes) == rc \notin expected_return_codes

DefaultReturnCodes == {0}

CheckReturnCodes == {0, 1}

\* Mutant: run_incremental accepts every return code.
IncrementalReturnCodesAny == {0, 1, 2}

IncrementalReturnCodes == {0, 1}

\* Mutant: an exception leaves the with block without the scope being exited.
RaiseLeaking(e, issued) ==
    /\ pc' = "raised"
    /\ error' = e
    /\ sandbox' = sandbox
    /\ events' = events \o issued

\* Mutant: an exception that leaves the with block also stops the server.
RaiseStopping(e, issued) ==
    /\ pc' = "raised"
    /\ error' = e
    /\ sandbox' = IF sandbox = "active" THEN "released" ELSE sandbox
    /\ events' = events \o issued \o
                 (IF server = "up" THEN <<Event("stop", 0, 0)>> ELSE <<>>) \o
                 (IF sandbox = "active" THEN <<Event("sandbox_exit", 0, 0)>> ELSE <<>>)

\* An exception leaves the with block: the activate_sandbox scope is exited on
\* the way out and the run ends with the exception.
Raise(e, issued) ==
    /\ pc' = "raised"
    /\ error' = e
    /\ sandbox' = IF sandbox = "active" THEN "released" ELSE sandbox
    /\ events' = events \o issued \o
                 (IF sandbox = "active" THEN <<Event("sandbox_exit", 0, 0)>> ELSE <<>>)

\* The history keeps one entry for a run of consecutive incremental_updates
\* reads that ended with the same return code.
PollEvent(rc) ==
    IF events # <<>> /\ events[Len(events)] = Event("profile_iu", 0, rc)
    THEN <<>>
    ELSE <<Event("profile_iu", 0, rc)>>

Modes == {"compare", "benchmark"}

Init ==
    /\ mode \in Modes
    /\ nSteps \in 0..MaxSteps
    /\ ip = 1
    /\ pc = "with"
    /\ sandbox = "none"
    /\ server = "down"
    /\ serverLog = <<>>
    /\ expected = 0
    /\ driver_logs = <<>>
    /\ cold_start_log = Unbound
    /\ incremental_update_logs = <<>>
    /\ output = <<>>
    /\ incremental_check_output = <<>>
    /\ full_check_output = <<>>
    /\ full_check_time = 0
    /\ result = <<>>
    /\ jsonOut = <<>>
    /\ flag = FALSE
    /\ error = "none"
    /\ events = <<>>
    /\ polls = <<>>
    /\ produced = <<>>

\* _create_pyre_runner: old_state.activate_sandbox(environment) is entered and
\* the runner is built on the sandbox root; the acquisition itself may raise.
CreatePyreRunner ==
    /\ pc = "with"
    /\ \/ /\ sandbox' = "active"
          /\ events' = Append(events, Event("sandbox_enter", 0, 0))
          /\ Returns
          /\ error' = error
       \/ /\ pc' = "raised"
          /\ error' = "SandboxError"
          /\ UNCHANGED <<sandbox, events, ip>>
    /\ UNCHANGED <<mode, nSteps, server, serverLog, expected, driver_logs,
                   cold_start_log, incremental_update_logs, output,
                   incremental_check_output, full_check_output, full_check_time,
                   result, jsonOut, flag, polls, produced>>

\* run_start, first half: checked_run of `pyre ... restart`.
RunStartRestart ==
    /\ pc = "run_start"
    /\ \E rc \in ExitCodes :
         IF CheckedRunFails(rc, DefaultReturnCodes)
         THEN /\ Raise("FatalError", <<Event("restart", 0, rc)>>)
              /\ UNCHANGED <<server, serverLog>>
         ELSE /\ pc' = "start_profile"
              /\ server' = "up"
              /\ serverLog' = <<>>
              /\ events' = Append(events, Event("restart", 0, rc))
              /\ UNCHANGED <<sandbox, error>>
    /\ UNCHANGED <<mode, ip, nSteps, expected, driver_logs,
                   cold_start_log, incremental_update_logs, output,
                   incremental_check_output, full_check_output, full_check_time,
                   result, jsonOut, flag, polls, produced>>

\* run_start, second half: return self.run_profile("cold_start_phases").
RunStartProfile ==
    /\ pc = "start_profile"
    /\ \E rc \in ExitCodes :
         IF CheckedRunFails(rc, DefaultReturnCodes)
         THEN /\ Raise("FatalError", <<Event("profile_cs", 0, rc)>>)
              /\ UNCHANGED <<ip, cold_start_log>>
         ELSE \/ /\ Raise("JSONDecodeError", <<Event("profile_cs", 0, rc)>>)
                 /\ UNCHANGED <<ip, cold_start_log>>
              \/ \E log \in ColdStartLogs :
                   /\ cold_start_log' = log
                   /\ events' = Append(events, Event("profile_cs", log.total, rc))
                   /\ Returns
                   /\ UNCHANGED <<sandbox, error>>
    /\ UNCHANGED <<mode, nSteps, server, serverLog, expected, driver_logs,
                   incremental_update_logs, output,
                   incremental_check_output, full_check_output, full_check_time,
                   result, jsonOut, flag, polls, produced>>

\* The pyre server, while it runs, appends a record to its incremental_updates
\* log whenever it likes (it is an independent process).
ServerEmitTurn ==
    /\ server = "up"
    /\ Len(serverLog) < MaxLog
    /\ serverLog' = Append(serverLog, EmittedRecord(Len(serverLog) + 1))
    /\ UNCHANGED <<mode, ip, nSteps, pc, sandbox, server, expected, driver_logs,
                   cold_start_log, incremental_update_logs, output,
                   incremental_check_output, full_check_output, full_check_time,
                   result, jsonOut, flag, error, events, polls>>

ServerEmit ==
    /\ ServerEmitTurn
    /\ UNCHANGED produced

\* Mutant: update() reads the log once before its loop.
UpdateEnterPolling ==
    /\ pc = "update"
    /\ driver_logs' = <<>>
    /\ expected' = 0
    /\ pc' = "poll"
    /\ UNCHANGED <<mode, ip, nSteps, sandbox, server, serverLog,
                   cold_start_log, incremental_update_logs, output,
                   incremental_check_output, full_check_output, full_check_time,
                   result, jsonOut, flag, error, events, polls, produced>>

\* update(): entry. incremental_update_logs = [] and the enumeration starts.
UpdateEnter ==
    /\ pc = "update"
    /\ driver_logs' = <<>>
    /\ expected' = 0
    /\ pc' = "for"
    /\ UNCHANGED <<mode, ip, nSteps, sandbox, server, serverLog,
                   cold_start_log, incremental_update_logs, output,
                   incremental_check_output, full_check_output, full_check_time,
                   result, jsonOut, flag, error, events, polls, produced>>

\* Mutant: the next step is applied without waiting for the pending read.
UpdateStepEarly ==
    /\ pc \in {"for", "poll"}
    /\ expected < nSteps
    /\ \/ /\ pc' = "poll"
          /\ events' = Append(events, Event("step", expected, 0))
          /\ UNCHANGED <<sandbox, error>>
       \/ Raise("UpdateError", <<Event("step", expected, 0)>>)
    /\ UNCHANGED <<mode, ip, nSteps, server, serverLog, expected, driver_logs,
                   cold_start_log, incremental_update_logs, output,
                   incremental_check_output, full_check_output, full_check_time,
                   result, jsonOut, flag, polls, produced>>

\* update(): the next step of the for loop is applied to the sandbox
\* (update.update(environment, working_directory)), which may raise.
UpdateStep ==
    /\ pc = "for"
    /\ expected < nSteps
    /\ \/ /\ pc' = "poll"
          /\ events' = Append(events, Event("step", expected, 0))
          /\ UNCHANGED <<sandbox, error>>
       \/ Raise("UpdateError", <<Event("step", expected, 0)>>)
    /\ UNCHANGED <<mode, ip, nSteps, server, serverLog, expected, driver_logs,
                   cold_start_log, incremental_update_logs, output,
                   incremental_check_output, full_check_output, full_check_time,
                   result, jsonOut, flag, polls, produced>>

\* Mutant: a log as long as `expected` already ends the wait.
SettledAtLeast(logs, n) == Len(logs) >= n

\* Mutant: any record in the log ends the wait, whatever `expected` is.
SettledNonEmpty(logs, n) == Len(logs) > 0

\* Mutant: the wait ends only on a log with one record more than needed.
SettledBeyond(logs, n) == Len(logs) > n + 1

\* The test of the while loop: the step is settled once the log is longer
\* than `expected`.
Settled(logs, n) == Len(logs) > n

\* update(): one turn of the while loop, but for the history of polls:
\* run_profile("incremental_updates"), then break or go to sleep.
UpdatePollTurn ==
    /\ pc = "poll"
    /\ \E rc \in ExitCodes :
         IF CheckedRunFails(rc, DefaultReturnCodes)
         THEN /\ Raise("FatalError", PollEvent(rc))
              /\ UNCHANGED <<driver_logs, expected>>
         ELSE \/ /\ Raise("JSONDecodeError", PollEvent(rc))
                 /\ UNCHANGED <<driver_logs, expected>>
              \/ /\ driver_logs' = serverLog
                 /\ events' = events \o PollEvent(rc)
                 /\ IF Settled(serverLog, expected)
                    THEN /\ expected' = expected + 1
                         /\ pc' = "for"
                    ELSE /\ expected' = expected
                         /\ pc' = "sleep"
                 /\ UNCHANGED <<sandbox, error>>
    /\ UNCHANGED <<mode, ip, nSteps, server, serverLog,
                   cold_start_log, incremental_update_logs, output,
                   incremental_check_output, full_check_output, full_check_time,
                   result, jsonOut, flag, produced>>

UpdatePoll ==
    /\ UpdatePollTurn
    /\ UNCHANGED polls

\* Mutant: the wait gives up after its first sleep.
UpdateSleepTimesOut ==
    /\ pc = "sleep"
    /\ Raise("TimeoutError", <<>>)
    /\ UNCHANGED <<mode, ip, nSteps, server, serverLog, expected, driver_logs,
                   cold_start_log, incremental_update_logs, output,
                   incremental_check_output, full_check_output, full_check_time,
                   result, jsonOut, flag, polls, produced>>

\* sleep(1), then the while loop polls again.
UpdateSleep ==
    /\ pc = "sleep"
    /\ pc' = "poll"
    /\ UNCHANGED <<mode, ip, nSteps, sandbox, server, serverLog, expected, driver_logs,
                   cold_start_log, incremental_update_logs, output,
                   incremental_check_output, full_check_output, full_check_time,
                   result, jsonOut, flag, error, events, polls, produced>>

\* Mutant: update() returns what the server's log holds at the return, not the
\* value of its last poll.
UpdateReturnFresh ==
    /\ pc = "for"
    /\ expected >= nSteps
    /\ incremental_update_logs' = serverLog
    /\ Returns
    /\ UNCHANGED <<mode, nSteps, sandbox, server, serverLog, expected, driver_logs,
                   cold_start_log, output,
                   incremental_check_output, full_check_output, full_check_time,
                   result, jsonOut, flag, error, events, polls, produced>>

\* update(): the for loop is exhausted; return incremental_update_logs, which
\* the caller binds to its own incremental_update_logs.
UpdateReturn ==
    /\ pc = "for"
    /\ expected >= nSteps
    /\ incremental_update_logs' = driver_logs
    /\ Returns
    /\ UNCHANGED <<mode, nSteps, sandbox, server, serverLog, expected, driver_logs,
                   cold_start_log, output,
                   incremental_check_output, full_check_output, full_check_time,
                   result, jsonOut, flag, error, events, polls, produced>>

\* The value run_check / run_incremental return for a gateway output that
\* parses: [] for return code 0, the parsed array otherwise.
RunResult(o) == IF o.return_code = 0 THEN <<>> ELSE ParseErrors(o.stdout)

\* Whether producing that value raises, and what.
RunResultError(o) == IF o.return_code = 0 THEN "none" ELSE ParseError(o.stdout)

\* run_incremental: checked_run of `pyre ... incremental`, expected codes (0, 1).
RunIncrementalCall ==
    /\ pc = "run_incremental"
    /\ \E rc \in ExitCodes :
         IF CheckedRunFails(rc, IncrementalReturnCodes)
         THEN /\ Raise("FatalError", <<Event("incremental", 0, rc)>>)
              /\ output' = <<>>
         ELSE /\ \E so \in Stdouts : output' = <<[return_code |-> rc, stdout |-> so]>>
              /\ pc' = "incremental_parse"
              /\ events' = Append(events, Event("incremental", 0, rc))
              /\ UNCHANGED <<sandbox, error>>
    /\ UNCHANGED <<mode, ip, nSteps, server, serverLog, expected, driver_logs,
                   cold_start_log, incremental_update_logs,
                   incremental_check_output, full_check_output, full_check_time,
                   result, jsonOut, flag, polls, produced>>

\* run_incremental: the return statement.
RunIncrementalReturn ==
    /\ pc = "incremental_parse"
    /\ IF RunResultError(output[1]) # "none"
       THEN /\ Raise(RunResultError(output[1]), <<>>)
            /\ UNCHANGED <<ip, incremental_check_output>>
       ELSE /\ incremental_check_output' = RunResult(output[1])
            /\ Returns
            /\ UNCHANGED <<sandbox, error, events>>
    /\ UNCHANGED <<mode, nSteps, server, serverLog, expected, driver_logs,
                   cold_start_log, incremental_update_logs, output,
                   full_check_output, full_check_time,
                   result, jsonOut, flag, polls, produced>>

\* run_stop: checked_run of `pyre stop`.
RunStop ==
    /\ pc = "run_stop"
    /\ \E rc \in ExitCodes :
         IF CheckedRunFails(rc, DefaultReturnCodes)
         THEN /\ Raise("FatalError", <<Event("stop", 0, rc)>>)
              /\ UNCHANGED <<ip, server, serverLog>>
         ELSE /\ server' = "stopped"
              /\ serverLog' = <<>>
              /\ events' = Append(events, Event("stop", 0, rc))
              /\ Returns
              /\ UNCHANGED <<sandbox, error>>
    /\ output' = <<>>
    /\ UNCHANGED <<mode, nSteps, expected, driver_logs,
                   cold_start_log, incremental_update_logs,
                   incremental_check_output, full_check_output, full_check_time,
                   result, jsonOut, flag, polls, produced>>

\* run_check: checked_run of `pyre ... check`, expected codes (0, 1).
RunCheckCall ==
    /\ pc = "run_check"
    /\ \E rc \in ExitCodes :
         IF CheckedRunFails(rc, CheckReturnCodes)
         THEN /\ Raise("FatalError", <<Event("check", 0, rc)>>)
              /\ output' = <<>>
         ELSE /\ \E so \in Stdouts : output' = <<[return_code |-> rc, stdout |-> so]>>
              /\ pc' = "check_parse"
              /\ events' = Append(events, Event("check", 0, rc))
              /\ UNCHANGED <<sandbox, error>>
    /\ UNCHANGED <<mode, ip, nSteps, server, serverLog, expected, driver_logs,
                   cold_start_log, incremental_update_logs,
                   incremental_check_output, full_check_output, full_check_time,
                   result, jsonOut, flag, polls, produced>>

\* run_check: the return statement, and the caller's reading of the clock.
RunCheckReturn ==
    /\ pc = "check_parse"
    /\ IF RunResultError(output[1]) # "none"
       THEN /\ Raise(RunResultError(output[1]), <<>>)
            /\ UNCHANGED <<ip, full_check_output, full_check_time>>
       ELSE /\ full_check_output' = RunResult(output[1])
            /\ \E ms \in ElapsedMs : full_check_time' = ms
            /\ Returns
            /\ UNCHANGED <<sandbox, error, events>>
    /\ UNCHANGED <<mode, nSteps, server, serverLog, expected, driver_logs,
                   cold_start_log, incremental_update_logs, output,
                   incremental_check_output,
                   result, jsonOut, flag, polls, produced>>

\* The with block ends normally: the activate_sandbox scope is exited.
ExitScope ==
    /\ pc = "end_with"
    /\ sandbox' = "released"
    /\ events' = Append(events, Event("sandbox_exit", 0, 0))
    /\ Returns
    /\ output' = <<>>
    /\ UNCHANGED <<mode, nSteps, server, serverLog, expected, driver_logs,
                   cold_start_log, incremental_update_logs,
                   incremental_check_output, full_check_output, full_check_time,
                   result, jsonOut, flag, error, polls, produced>>

\* Optional[InconsistentOutput]: None is <<>>, a value x is <<x>>.
None == <<>>

InconsistentOutput(full, incremental) ==
    [full_check_output |-> full, incremental_check_output |-> incremental]

ProfileLogs(update_logs, cold_log) ==
    [incremental_update_logs |-> update_logs, cold_start_log |-> cold_log]

ResultComparison(discrepancy, time, profile_logs) ==
    [discrepancy |-> discrepancy, full_check_time |-> time, profile_logs |-> profile_logs]

\* Mutant: the two outputs compared as collections, whatever their order.
DiscrepancyUnordered(incremental, full) ==
    IF /\ Len(incremental) = Len(full)
       /\ {incremental[i] : i \in 1..Len(incremental)} = {full[i] : i \in 1..Len(full)}
    THEN None
    ELSE <<InconsistentOutput(full, incremental)>>

\* compare_server_to_full: the comparison after the with block.
Discrepancy(incremental, full) ==
    IF incremental = full THEN None ELSE <<InconsistentOutput(full, incremental)>>

CompareResult ==
    ResultComparison(Discrepancy(incremental_check_output, full_check_output),
                     full_check_time,
                     ProfileLogs(incremental_update_logs, cold_start_log))

BenchmarkResult == ProfileLogs(incremental_update_logs, cold_start_log)

CompareReturn ==
    /\ pc = "return"
    /\ mode = "compare"
    /\ result' = <<CompareResult>>
    /\ pc' = "returned"
    /\ UNCHANGED <<mode, ip, nSteps, sandbox, server, serverLog, expected, driver_logs,
                   cold_start_log, incremental_update_logs, output,
                   incremental_check_output, full_check_output, full_check_time,
                   jsonOut, flag, error, events, polls, produced>>

BenchmarkReturn ==
    /\ pc = "return"
    /\ mode = "benchmark"
    /\ result' = <<BenchmarkResult>>
    /\ pc' = "returned"
    /\ UNCHANGED <<mode, ip, nSteps, sandbox, server, serverLog, expected, driver_logs,
                   cold_start_log, incremental_update_logs, output,
                   incremental_check_output, full_check_output, full_check_time,
                   jsonOut, flag, error, events, polls, produced>>

Next ==
    \/ CreatePyreRunner
    \/ RunStartRestart
    \/ RunStartProfile
    \/ ServerEmit
    \/ UpdateEnter
    \/ UpdateStep
    \/ UpdatePoll
    \/ UpdateSleep
    \/ UpdateReturn
    \/ RunIncrementalCall
    \/ RunIncrementalReturn
    \/ RunStop
    \/ RunCheckCall
    \/ RunCheckReturn
    \/ ExitScope
    \/ CompareReturn
    \/ BenchmarkReturn

Spec == Init /\ [][Next]_vars

\* Every step of the program itself: all of Next but the server's emission.
ProgramStep ==
    \/ CreatePyreRunner
    \/ RunStartRestart
    \/ RunStartProfile
    \/ UpdateEnter
    \/ UpdateStep
    \/ UpdatePoll
    \/ UpdateSleep
    \/ UpdateReturn
    \/ RunIncrementalCall
    \/ RunIncrementalReturn
    \/ RunStop
    \/ RunCheckCall
    \/ RunCheckReturn
    \/ ExitScope
    \/ CompareReturn
    \/ BenchmarkReturn

\* The program is one thread of control that keeps running: sleep(1) returns
\* and every blocking call comes back, so a step that can be taken is taken.
\* Nothing is assumed of the server.
SpecRunning == Init /\ [][Next]_vars /\ WF_vars(ProgramStep)

\* ------------------------------------------------- the update driver alone
\* PyreRunner.update() from its entry, with the server running, and with every
\* successful poll recorded: the step it was made for, the log length it saw,
\* and whether it was an extra poll (one followed by sleep(1)).
InitDriver ==
    /\ mode \in Modes
    /\ nSteps \in 0..MaxSteps
    /\ ip = 3
    /\ pc = "update"
    /\ sandbox = "active"
    /\ server = "up"
    /\ serverLog = <<>>
    /\ expected = 0
    /\ driver_logs = <<>>
    /\ cold_start_log \in ColdStartLogs
    /\ incremental_update_logs = <<>>
    /\ output = <<>>
    /\ incremental_check_output = <<>>
    /\ full_check_output = <<>>
    /\ full_check_time = 0
    /\ result = <<>>
    /\ jsonOut = <<>>
    /\ flag = FALSE
    /\ error = "none"
    /\ events = <<Event("sandbox_enter", 0, 0), Event("restart", 0, 0),
                  Event("profile_cs", cold_start_log.total, 0)>>
    /\ polls = <<>>
    /\ produced = <<>>

\* The number of update steps applied so far, from the history.
StepsApplied == Cardinality({i \in 1..Len(events) : events[i].cmd = "step"})

\* The server's emission with its moment recorded: how many steps had been
\* applied when the record was written.
ServerEmitObserved ==
    /\ ServerEmitTurn
    /\ produced' = Append(produced, StepsApplied)

UpdatePollObserved ==
    /\ Len(polls) < MaxPolls
    /\ UpdatePollTurn
    /\ polls' = IF pc' = "raised"
                THEN polls
                ELSE Append(polls, [step |-> expected, length |-> Len(driver_logs'),
                                    extra |-> pc' = "sleep", applied |-> StepsApplied,
                                    logs |-> driver_logs'])

NextDriver ==
    \/ ServerEmitObserved
    \/ UpdateEnter
    \/ UpdateStep
    \/ UpdatePollObserved
    \/ UpdateSleep
    \/ UpdateReturn

SpecDriver == InitDriver /\ [][NextDriver]_vars

\* ------------------------------------------------------------ serialisation
\* dataclasses.asdict on a PyreError: a mapping with its four fields.
AsDict(e) ==
    [line |-> e.line, column |-> e.column, path |-> e.path, description |-> e.description]

\* InconsistentOutput.to_json
InconsistentOutputToJson(d) ==
    [full_check_output |->
        [i \in 1..Len(d.full_check_output) |-> AsDict(d.full_check_output[i])],
     incremental_check_output |->
        [i \in 1..Len(d.incremental_check_output) |-> AsDict(d.incremental_check_output[i])]]

\* ProfileLogs.to_json
ProfileLogsToJson(p) ==
    [incremental_update_logs |-> p.incremental_update_logs,
     cold_start_log |-> p.cold_start_log]

\* Mutant: a record without "total" counts as 0 instead of raising.
TotalOfTotalsZeroFills(p) == FALSE

\* ProfileLogs.total_of_totals: log["total"] is a KeyError on a record without it.
TotalOfTotalsRaises(p) ==
    \E i \in 1..Len(p.incremental_update_logs) : ~p.incremental_update_logs[i].has_total

RECURSIVE SumTotals(_)
SumTotals(logs) ==
    IF logs = <<>> THEN 0 ELSE Head(logs).total + SumTotals(Tail(logs))

total_of_totals(p) == SumTotals(p.incremental_update_logs)

\* A JSON value that is a string, and one that is a mapping.
JsonString(str) == <<"string", str>>
JsonObject(obj) == <<"object", obj>>

\* Mutant: the flag hides the discrepancy entry only when there is no discrepancy.
ToJsonHidesOnlyNone(r, dont_show_discrepancy) ==
    IF dont_show_discrepancy /\ r.discrepancy = None
    THEN [full_check_time |-> r.full_check_time,
          incremental_check_time |-> total_of_totals(r.profile_logs),
          profile_logs |-> ProfileLogsToJson(r.profile_logs)]
    ELSE [full_check_time |-> r.full_check_time,
          incremental_check_time |-> total_of_totals(r.profile_logs),
          profile_logs |-> ProfileLogsToJson(r.profile_logs),
          discrepancy |-> IF r.discrepancy = None
                          THEN JsonString("none")
                          ELSE JsonObject(InconsistentOutputToJson(r.discrepancy[1]))]

\* ResultComparison.to_json, when total_of_totals does not raise.
ToJson(r, dont_show_discrepancy) ==
    IF dont_show_discrepancy
    THEN [full_check_time |-> r.full_check_time,
          incremental_check_time |-> total_of_totals(r.profile_logs),
          profile_logs |-> ProfileLogsToJson(r.profile_logs)]
    ELSE [full_check_time |-> r.full_check_time,
          incremental_check_time |-> total_of_totals(r.profile_logs),
          profile_logs |-> ProfileLogsToJson(r.profile_logs),
          discrepancy |-> IF r.discrepancy = None
                          THEN JsonString("none")
                          ELSE JsonObject(InconsistentOutputToJson(r.discrepancy[1]))]

\* The caller serialises the ResultComparison it was given.
ToJsonCall ==
    /\ pc = "returned"
    /\ mode = "compare"
    /\ \E f \in BOOLEAN :
         /\ flag' = f
         /\ IF TotalOfTotalsRaises(result[1].profile_logs)
            THEN /\ error' = "KeyError"
                 /\ jsonOut' = <<>>
                 /\ pc' = "to_json_raised"
            ELSE /\ error' = error
                 /\ jsonOut' = <<ToJson(result[1], f)>>
                 /\ pc' = "serialised"
    /\ UNCHANGED <<mode, ip, nSteps, sandbox, server, serverLog, expected, driver_logs,
                   cold_start_log, incremental_update_logs, output,
                   incremental_check_output, full_check_output, full_check_time,
                   result, events, polls, produced>>

\* The errors a check can return, and the history of a comparison that returned.
PyreErrors == {from_json(x) : x \in {y \in JsonRecords : ~FromJsonRaises(y)}}

ReturnedHistory(n, cold, rc_incremental, rc_check) ==
    <<Event("sandbox_enter", 0, 0), Event("restart", 0, 0),
      Event("profile_cs", cold.total, 0)>>
    \o [i \in 1..(2 * n) |-> IF i % 2 = 1 THEN Event("step", (i - 1) \div 2, 0)
                                          ELSE Event("profile_iu", 0, 0)]
    \o <<Event("incremental", 0, rc_incremental), Event("stop", 0, 0),
         Event("check", 0, rc_check), Event("sandbox_exit", 0, 0)>>

\* to_json alone: compare_server_to_full has returned a ResultComparison built
\* from any two error sequences, any update log and any elapsed time.
InitJson ==
    /\ mode = "compare"
    /\ ip = Len(CompareProgram)
    /\ pc = "returned"
    /\ sandbox = "released"
    /\ server = "stopped"
    /\ serverLog = <<>>
    /\ incremental_update_logs \in SeqUpTo(ProfileRecords, MaxLog)
    /\ nSteps = Len(incremental_update_logs)
    /\ expected = nSteps
    /\ driver_logs = incremental_update_logs
    /\ cold_start_log \in ColdStartLogs
    /\ output = <<>>
    /\ incremental_check_output \in SeqUpTo(PyreErrors, MaxArr)
    /\ full_check_output \in SeqUpTo(PyreErrors, MaxArr)
    /\ full_check_time \in ElapsedMs
    /\ result = <<CompareResult>>
    /\ jsonOut = <<>>
    /\ flag = FALSE
    /\ error = "none"
    /\ events = ReturnedHistory(nSteps, cold_start_log,
                                IF incremental_check_output = <<>> THEN 0 ELSE 1,
                                IF full_check_output = <<>> THEN 0 ELSE 1)
    /\ polls = <<>>
    /\ produced = <<>>

NextJson == ToJsonCall

SpecJson == InitJson /\ [][NextJson]_vars

\* ------------------------------------------------------------------ claims
\* The commands issued and steps applied so far, without the sandbox entries,
\* each reduced to its name and step index.
Commands == SelectSeq(events, LAMBDA e : e.cmd \notin {"sandbox_enter", "sandbox_exit"})

Label(e) == <<e.cmd, IF e.cmd = "step" THEN e.arg ELSE 0>>

Labels == [i \in 1..Len(Commands) |-> Label(Commands[i])]

\* restart, cold-start read, then per step its application and its reads,
\* then incremental and stop.
UpToStop(n) ==
    <<<<"restart", 0>>, <<"profile_cs", 0>>>>
    \o [i \in 1..(2 * n) |-> IF i % 2 = 1 THEN <<"step", (i - 1) \div 2>>
                                          ELSE <<"profile_iu", 0>>]
    \o <<<<"incremental", 0>>, <<"stop", 0>>>>

ElementwiseEqual(a, b) == Len(a) = Len(b) /\ \A i \in 1..Len(a) : a[i] = b[i]

\* C1: a returned ResultComparison has discrepancy None exactly when the
\* incremental and the full error sequences have the same length and agree at
\* every position; otherwise it holds the full sequence as full_check_output
\* and the incremental one as incremental_check_output, as they were returned.
C1_Discrepancy ==
    (pc = "returned" /\ mode = "compare") =>
        LET d == result[1].discrepancy IN
        /\ (Len(d) = 0) <=> ElementwiseEqual(incremental_check_output, full_check_output)
        /\ Len(d) # 0 =>
              /\ d[1].full_check_output = full_check_output
              /\ d[1].incremental_check_output = incremental_check_output

\* C1 witness: the two checks returned the same two errors in opposite order
\* and the comparison reported a discrepancy.
C1_Witness ==
    /\ pc = "returned" /\ mode = "compare"
    /\ Len(incremental_check_output) = 2 /\ Len(full_check_output) = 2
    /\ incremental_check_output[1] = full_check_output[2]
    /\ incremental_check_output[2] = full_check_output[1]
    /\ incremental_check_output[1] # incremental_check_output[2]
    /\ Len(result[1].discrepancy) = 1

\* C2: a comparison that returned has issued restart, the cold-start read, each
\* step followed by its incremental_updates reads, incremental, stop and check,
\* in this order and nothing else.
C2_CommandOrder ==
    (pc = "returned" /\ mode = "compare") =>
        Labels = UpToStop(nSteps) \o <<<<"check", 0>>>>

\* C2 witness: a comparison over at least two steps returned.
C2_Witness == pc = "returned" /\ mode = "compare" /\ nSteps >= 2

\* C3 as stated: whenever check has been issued, the sandbox scope was exited
\* before it.
C3_CheckAfterScopeExit ==
    \A i \in 1..Len(events) :
        events[i].cmd = "check" => \E j \in 1..(i - 1) : events[j].cmd = "sandbox_exit"

\* C3 amended: check is issued inside the sandbox scope: after the scope was
\* entered and after stop, and before the scope is exited.
C3_CheckInsideScope ==
    \A i \in 1..Len(events) :
        events[i].cmd = "check" =>
            /\ \E j \in 1..(i - 1) : events[j].cmd = "sandbox_enter"
            /\ \E j \in 1..(i - 1) : events[j].cmd = "stop"
            /\ \A j \in 1..(i - 1) : events[j].cmd # "sandbox_exit"

\* C3 witness: a comparison returned: check was issued and the scope exited.
C3_Witness ==
    /\ pc = "returned"
    /\ \E i \in 1..Len(events) :
          /\ events[i].cmd = "check"
          /\ \E j \in (i + 1)..Len(events) : events[j].cmd = "sandbox_exit"

\* The scenario of C4: three steps, and successive incremental_updates reads
\* that report logs of these lengths.
Script == <<0, 0, 1, 1, 2, 3>>

PollLengths == [i \in 1..Len(polls) |-> polls[i].length]

ExtraPolls == {i \in 1..Len(polls) : polls[i].extra}

FollowsScript ==
    /\ nSteps = 3
    /\ Len(polls) <= Len(Script)
    /\ PollLengths = SubSeq(Script, 1, Len(polls))

\* update() has returned to its caller.
DriverReturned == pc = "run_incremental"

ScriptDone == FollowsScript /\ DriverReturned

\* C4 as stated: on this scenario the driver makes exactly 2 extra polls, none
\* of them on the third step, and returns a log of length 3.
C4_TwoExtraPolls ==
    ScriptDone =>
        /\ Cardinality(ExtraPolls) = 2
        /\ \A i \in ExtraPolls : polls[i].step # 2
        /\ Len(incremental_update_logs) = 3

\* C4 amended: on this scenario the driver makes exactly 3 extra polls, the
\* first two reads (first step) and the fourth (second step), none on the
\* third step, and returns after the sixth read with a log of length 3.
C4_ThreeExtraPolls ==
    FollowsScript =>
        /\ \A i \in 1..Len(polls) :
              /\ polls[i].extra <=> i \in {1, 2, 4}
              /\ polls[i].step = <<0, 0, 0, 1, 1, 2>>[i]
        /\ DriverReturned =>
              /\ Len(polls) = Len(Script)
              /\ Cardinality(ExtraPolls) = 3
              /\ \A i \in ExtraPolls : polls[i].step # 2
              /\ Len(incremental_update_logs) = 3

\* C4 witness: the driver returned after reads of exactly these lengths.
C4_Witness == ScriptDone /\ Len(polls) = Len(Script)

\* run_check or run_incremental has completed (returned or raised) on a gateway
\* output that the history still holds, and the value it gave its caller.
CallDone == output # <<>> /\ pc \notin {"incremental_parse", "check_parse"}

LastCommand == Commands[Len(Commands)].cmd

Returned == IF LastCommand = "incremental" THEN incremental_check_output
                                            ELSE full_check_output

HasAllKeys(x) == \A k \in Keys : k \in x.keys

\* C5: run_check and run_incremental return [] on return code 0 whatever stdout
\* holds; on return code 1 with an array of k complete records they return the
\* k records in array order; any other return code ends the run with the
\* gateway's fatal error.
C5_ReturnCodes ==
    /\ CallDone =>
          LET o == output[1]
              a == o.stdout.array
          IN /\ o.return_code = 0 => (pc # "raised" /\ Returned = <<>>)
             /\ (o.return_code = 1 /\ o.stdout.json /\ \A i \in 1..Len(a) : HasAllKeys(a[i])) =>
                   /\ pc # "raised"
                   /\ Len(Returned) = Len(a)
                   /\ \A i \in 1..Len(a) :
                         /\ Returned[i].line = a[i].line.n
                         /\ Returned[i].column = a[i].column.n
                         /\ Returned[i].path = a[i].path
                         /\ Returned[i].description = a[i].description
    /\ \A i \in 1..Len(Commands) :
          (Commands[i].cmd \in {"incremental", "check"} /\ Commands[i].rc \notin {0, 1}) =>
              /\ pc = "raised" /\ error = "FatalError"
              /\ i = Len(Commands)
              /\ output = <<>> /\ result = <<>>

\* C5 witness: the full check ended with code 1 and two different complete
\* records, and returned two errors.
C5_Witness ==
    /\ CallDone /\ LastCommand = "check" /\ pc # "raised"
    /\ output[1].return_code = 1 /\ Len(output[1].stdout.array) = 2
    /\ output[1].stdout.array[1] # output[1].stdout.array[2]
    /\ Len(full_check_output) = 2
    /\ full_check_output[1] # full_check_output[2]

\* C7: an array with an element that lacks a key makes run_check and
\* run_incremental raise MalformedPyreOutputException; the caller gets no
\* sequence and the run ends without a result.
C7_MissingKey ==
    (/\ CallDone
     /\ output[1].return_code = 1
     /\ output[1].stdout.json
     /\ \E i \in 1..Len(output[1].stdout.array) : ~HasAllKeys(output[1].stdout.array[i])) =>
        /\ pc = "raised"
        /\ error = "MalformedPyreOutputException"
        /\ Returned = <<>>
        /\ result = <<>>

\* C7 witness: a complete record followed by one without "description".
C7_Witness ==
    /\ CallDone /\ output[1].return_code = 1 /\ Len(output[1].stdout.array) = 2
    /\ HasAllKeys(output[1].stdout.array[1])
    /\ output[1].stdout.array[2].keys = Keys \ {"description"}
    /\ pc = "raised"

\* The return codes each gateway command accepts.
Accepted(cmd) == IF cmd \in {"incremental", "check"} THEN {0, 1} ELSE {0}

GatewayCommands == {"restart", "profile_cs", "profile_iu", "incremental", "stop", "check"}

\* C6: a gateway command that ends with a return code it does not accept is the
\* last thing the run does: no step, no command follows, the run has raised the
\* fatal error and no result exists.
C6_AbortOnFatal ==
    \A i \in 1..Len(Commands) :
        (Commands[i].cmd \in GatewayCommands /\ Commands[i].rc \notin Accepted(Commands[i].cmd)) =>
            /\ i = Len(Commands)
            /\ pc = "raised" /\ error = "FatalError"
            /\ result = <<>>

\* C6 witness: an incremental_updates read failed while steps were left.
C6_Witness ==
    /\ Len(Commands) > 0 /\ LastCommand = "profile_iu"
    /\ Commands[Len(Commands)].rc # 0
    /\ expected + 1 < nSteps
    /\ pc = "raised"

Positions(cmd) == {i \in 1..Len(Commands) : Commands[i].cmd = cmd}

\* C8: a run that returned has stopped the server: one stop, after restart and
\* after incremental, and no incremental and no profile read after it.
C8_StoppedBeforeReturn ==
    pc = "returned" =>
        /\ server = "stopped"
        /\ Cardinality(Positions("stop")) = 1
        /\ \A i \in Positions("stop") :
              /\ \E j \in Positions("restart") : j < i
              /\ \E j \in Positions("incremental") : j < i
              /\ \A j \in (i + 1)..Len(Commands) :
                    Commands[j].cmd \notin {"incremental", "profile_iu", "profile_cs"}

\* C8 witness: a benchmark over at least one step returned.
C8_Witness == pc = "returned" /\ mode = "benchmark" /\ nSteps >= 1

\* The record the cold-start read of run_start returned, from the history.
ColdStartReturned ==
    LET i == CHOOSE i \in Positions("profile_cs") : TRUE
    IN ProfileRecord(TRUE, Commands[i].arg)

\* C9: a benchmark that returned issued what a comparison issues up to and
\* including stop, and never check; both entry points return the cold-start
\* record of run_start and the log sequence update() returned as ProfileLogs.
C9_BenchmarkAsCompare ==
    /\ mode = "benchmark" => Positions("check") = {}
    /\ pc = "returned" =>
          /\ SubSeq(Labels, 1, Len(UpToStop(nSteps))) = UpToStop(nSteps)
          /\ mode = "benchmark" => Len(Labels) = Len(UpToStop(nSteps))
          /\ LET logs == IF mode = "benchmark" THEN result[1] ELSE result[1].profile_logs
             IN /\ logs.cold_start_log = ColdStartReturned
                /\ logs.incremental_update_logs = driver_logs

\* C9 witness: a benchmark over two steps or more returned their logs.
C9_Witness ==
    /\ pc = "returned" /\ mode = "benchmark" /\ nSteps >= 2
    /\ Len(result[1].incremental_update_logs) >= 2

\* An array of JSON mappings that holds the given errors, field by field.
SameErrors(array, errors) ==
    /\ Len(array) = Len(errors)
    /\ \A i \in 1..Len(errors) :
          /\ DOMAIN array[i] = Keys
          /\ array[i].line = errors[i].line
          /\ array[i].column = errors[i].column
          /\ array[i].path = errors[i].path
          /\ array[i].description = errors[i].description

\* C10: the mapping to_json returns always has full_check_time,
\* incremental_check_time and profile_logs; with the flag set it has no
\* discrepancy entry; without it the entry is the string "none" exactly when
\* discrepancy is None, and otherwise the mapping of the two error arrays.
C10_ToJsonKeys ==
    /\ (pc = "serialised") <=> (jsonOut # <<>>)
    /\ jsonOut # <<>> =>
          LET j == jsonOut[1]
              d == result[1].discrepancy
          IN /\ {"full_check_time", "incremental_check_time", "profile_logs"} \subseteq DOMAIN j
             /\ flag => "discrepancy" \notin DOMAIN j
             /\ ~flag =>
                   /\ "discrepancy" \in DOMAIN j
                   /\ (j.discrepancy[1] = "string") <=> (Len(d) = 0)
                   /\ j.discrepancy[1] = "string" => j.discrepancy[2] = "none"
                   /\ j.discrepancy[1] # "string" =>
                         /\ j.discrepancy[1] = "object"
                         /\ DOMAIN j.discrepancy[2] =
                               {"full_check_output", "incremental_check_output"}
                         /\ SameErrors(j.discrepancy[2].full_check_output,
                                       d[1].full_check_output)
                         /\ SameErrors(j.discrepancy[2].incremental_check_output,
                                       d[1].incremental_check_output)

\* C10 witness: a comparison with a discrepancy was serialised with the flag set.
C10_Witness ==
    /\ pc = "serialised" /\ flag
    /\ Len(result[1].discrepancy) = 1

\* The "total" entries of the first n records, added from the n-th down.
RECURSIVE TotalsUpTo(_, _)
TotalsUpTo(logs, n) == IF n = 0 THEN 0 ELSE logs[n].total + TotalsUpTo(logs, n - 1)

LacksTotal(logs) == \E i \in 1..Len(logs) : ~logs[i].has_total

\* C11: to_json's incremental_check_time is total_of_totals of its profile_logs,
\* which is the sum of the "total" entries of incremental_update_logs and 0 for
\* an empty sequence; when any record lacks "total" the call ends with a
\* KeyError and returns no mapping, the record is not counted as 0.
C11_TotalOfTotals ==
    pc \in {"serialised", "to_json_raised"} =>
        LET logs == result[1].profile_logs.incremental_update_logs IN
        /\ LacksTotal(logs) =>
              /\ pc = "to_json_raised" /\ error = "KeyError" /\ jsonOut = <<>>
        /\ ~LacksTotal(logs) =>
              /\ pc = "serialised" /\ error = "none"
              /\ jsonOut[1].incremental_check_time = TotalsUpTo(logs, Len(logs))
              /\ jsonOut[1].incremental_check_time = total_of_totals(result[1].profile_logs)
              /\ logs = <<>> => jsonOut[1].incremental_check_time = 0

\* C11 witness: three records with different totals were added up.
C11_Witness ==
    /\ pc = "serialised"
    /\ Len(result[1].profile_logs.incremental_update_logs) = 3
    /\ result[1].profile_logs.incremental_update_logs[1].total
          # result[1].profile_logs.incremental_update_logs[2].total
    /\ jsonOut[1].incremental_check_time = 5

\* The update steps applied so far, in the order of their application.
StepEvents == SelectSeq(events, LAMBDA e : e.cmd = "step")

\* The largest log length a poll has returned so far, 0 before any poll.
MaxObserved ==
    IF polls = <<>> THEN 0
    ELSE CHOOSE m \in {polls[j].length : j \in 1..Len(polls)} :
             \A j \in 1..Len(polls) : polls[j].length <= m

\* C12: update() applies the steps in their given order, each once; step k+1
\* is applied only after a poll made since step k's application returned a log
\* longer than k, so the number of steps applied never exceeds the largest
\* observed log length by more than one; it returns with every step applied.
C12_StepsInOrder ==
    /\ Len(StepEvents) <= nSteps
    /\ \A i \in 1..Len(StepEvents) : StepEvents[i].arg = i - 1
    /\ \A k \in 0..(Len(StepEvents) - 2) :
          \E j \in 1..Len(polls) : polls[j].applied = k + 1 /\ polls[j].length > k
    /\ StepsApplied <= MaxObserved + 1
    /\ DriverReturned => Len(StepEvents) = nSteps

\* C12 witness: the third step was applied after an extra poll on the second.
C12_Witness ==
    /\ StepsApplied = 3
    /\ \E j \in 1..Len(polls) : polls[j].extra /\ polls[j].step = 1

\* The server wrote every record in answer to an applied step: none before
\* the first step.
RecordsAnswerSteps == \A r \in 1..Len(produced) : produced[r] >= 1

\* C13 as stated: a poll that ends the wait for step k returned a log that
\* holds a record the server wrote after step k was applied, however many
\* records the server writes for one step.
C13_OwnRecordArrived ==
    RecordsAnswerSteps =>
        \A j \in 1..Len(polls) :
            ~polls[j].extra =>
                \E r \in 1..polls[j].length : produced[r] = polls[j].step + 1

\* C13 witness: the server wrote two records after the first step and none
\* after the second, and the first poll of the second step ended its wait.
C13_Witness ==
    /\ produced = <<1, 1>>
    /\ Len(polls) = 2
    /\ polls[2].step = 1 /\ polls[2].applied = 2
    /\ polls[2].length = 2 /\ ~polls[2].extra

\* C14: when update() returns from N >= 1 steps, its last poll was made after
\* the last step was applied and ended that step's wait, the value returned is
\* the log sequence of that poll, and it holds at least N records: the
\* incremental check is reached only after a log of length N or more was seen.
C14_ReturnsLastPoll ==
    (DriverReturned /\ nSteps >= 1) =>
        /\ polls # <<>>
        /\ LET last == polls[Len(polls)]
           IN /\ last.applied = nSteps
              /\ last.step = nSteps - 1
              /\ ~last.extra
              /\ incremental_update_logs = last.logs
              /\ Len(last.logs) = last.length
        /\ Len(incremental_update_logs) >= nSteps
        /\ MaxObserved >= nSteps

\* C14 witness: update() returned the two records of its last poll while the
\* server's log already holds a third.
C14_Witness ==
    /\ DriverReturned /\ nSteps = 2
    /\ Len(incremental_update_logs) = 2
    /\ Len(serverLog) = 3

\* update() is inside the wait of a step.
InWait == pc \in {"poll", "sleep"}

\* The server's log is no longer than the index of the step being waited for.
Starved == Len(serverLog) <= expected

\* A profile read has failed.
ReadFailed == error \in {"FatalError", "JSONDecodeError"}

\* C15: from any state inside the wait of a step, unless the server makes the
\* log longer than the step's index or a profile read fails, the driver stays
\* in the wait for ever, polling and sleeping again and again: it raises
\* nothing, applies no further step, never returns, and the run issues no
\* incremental, stop or check.
C15_PollsForever ==
    [](InWait =>
          \/ <>(~Starved \/ ReadFailed)
          \/ /\ [](/\ InWait /\ error = "none" /\ result = <<>>
                    /\ LastCommand \in {"step", "profile_iu"})
             /\ []<>(pc = "poll")
             /\ []<>(pc = "sleep"))

\* C15 witness: the second step is applied, a poll found the log no longer
\* than 1, and the driver sleeps.
C15_Witness ==
    /\ pc = "sleep" /\ expected = 1 /\ Starved
    /\ LastCommand = "profile_iu"

\* The server is fair to the driver: whenever the driver waits for a step, the
\* log eventually is longer than the step's index (the log never shrinks while
\* the server runs).
ServerFair == [](InWait => <>(~Starved))

\* C16: if the server is fair to the driver and nothing raises (every gateway
\* call ends with an accepted code and output that parses, every step applies),
\* a run of either entry point eventually returns its result, with all N steps
\* applied.
C16_Terminates ==
    (ServerFair /\ [](error = "none")) =>
        <>(pc = "returned" /\ result # <<>> /\ StepsApplied = nSteps)

\* C16 witness: a run returned its result after MaxSteps steps, the last of
\* which had to be waited for.
C16_Witness ==
    /\ pc = "returned" /\ result # <<>> /\ error = "none"
    /\ StepsApplied = MaxSteps
    /\ Len(driver_logs) = MaxSteps

\* Control has left the with block: by its normal end or by an exception.
LeftBlock == pc \in {"return", "returned", "raised"}

ScopeEntries == {i \in 1..Len(events) : events[i].cmd = "sandbox_enter"}
ScopeExits == {i \in 1..Len(events) : events[i].cmd = "sandbox_exit"}

\* C17: once the sandbox scope was entered, every way out of the with block
\* (its normal end, a fatal process error, malformed output, any other
\* exception) exits the scope exactly once, as the last thing that happens
\* before the value or the error reaches the caller; inside the block the scope
\* is held and was not exited; a scope never entered is never exited.
C17_SandboxReleased ==
    /\ Cardinality(ScopeEntries) <= 1
    /\ ScopeEntries = {} => (sandbox = "none" /\ ScopeExits = {})
    /\ (ScopeEntries # {} /\ ~LeftBlock) => (sandbox = "active" /\ ScopeExits = {})
    /\ (ScopeEntries # {} /\ LeftBlock) =>
          /\ sandbox = "released"
          /\ ScopeExits = {Len(events)}

\* C17 witness: the full check printed a malformed array and the run ended
\* with the exception, the scope exited.
C17_Witness ==
    /\ pc = "raised" /\ error = "MalformedPyreOutputException"
    /\ LastCommand = "check"
    /\ sandbox = "released"

\* Which of the steps that start a gateway call or apply an update step can
\* be taken in the current state.
CallsThatCanStart ==
    <<ENABLED RunStartRestart, ENABLED RunStartProfile, ENABLED UpdateStep,
      ENABLED UpdatePoll, ENABLED RunIncrementalCall, ENABLED RunStop,
      ENABLED RunCheckCall>>

\* C18: in every state at most one gateway call or step application can
\* start, and none can while the output of a call is still being turned into
\* the call's result: each starts only after the previous one has returned.
C18_OneCallAtATime ==
    /\ Cardinality({i \in 1..Len(CallsThatCanStart) : CallsThatCanStart[i]}) <= 1
    /\ pc \in {"incremental_parse", "check_parse"} =>
          \A i \in 1..Len(CallsThatCanStart) : ~CallsThatCanStart[i]

\* C18 witness: a read of the log is about to start between two steps.
C18_Witness ==
    /\ ENABLED UpdatePoll /\ ~ENABLED UpdateStep
    /\ StepsApplied = 1 /\ nSteps >= 2

\* The position of run_stop among the statements of the entry point.
StopIndex == CHOOSE i \in 1..Len(Program) : Program[i] = "run_stop"

RestartSucceeded == \E i \in Positions("restart") : Commands[i].rc = 0

\* C19: a run that ended with an exception raised after restart succeeded and
\* before run_stop was reached has issued no stop: the server it started is
\* still running.
C19_NoStopAfterAbort ==
    (pc = "raised" /\ RestartSucceeded /\ ip < StopIndex) =>
        /\ Positions("stop") = {}
        /\ server = "up"

\* C19 witness: the second update step raised.
C19_Witness ==
    /\ pc = "raised" /\ error = "UpdateError"
    /\ StepsApplied = 2
    /\ server = "up"

\* The ProfileLogs of the returned value.
ReturnedProfileLogs == IF mode = "benchmark" THEN result[1] ELSE result[1].profile_logs

\* C20: with zero update steps no incremental_updates read is issued and no
\* step applied, update() returns the empty sequence whatever the server's log
\* holds, incremental directly follows the cold-start read, and
\* total_of_totals of the returned ProfileLogs is 0.
C20_ZeroSteps ==
    nSteps = 0 =>
        /\ Positions("profile_iu") = {} /\ Positions("step") = {}
        /\ driver_logs = <<>> /\ incremental_update_logs = <<>>
        /\ \A i \in Positions("incremental") :
              i = 3 /\ Commands[1].cmd = "restart" /\ Commands[2].cmd = "profile_cs"
        /\ pc = "returned" =>
              /\ ReturnedProfileLogs.incremental_update_logs = <<>>
              /\ ~TotalOfTotalsRaises(ReturnedProfileLogs)
              /\ total_of_totals(ReturnedProfileLogs) = 0

\* C20 witness: update() returned from zero steps while the server's log
\* holds two records.
C20_Witness ==
    /\ nSteps = 0 /\ pc = "run_incremental"
    /\ Len(serverLog) = 2
    /\ incremental_update_logs = <<>>

====
